---- MODULE Spec2Model ----
(***************************************************************************)
(* A model of the I18n translation store of include/i18n/i18n.hpp.         *)
(*                                                                         *)
(* Strings (paths, keys, locale codes, file contents) are sequences of     *)
(* one-character strings, so that splitting and parsing are computed       *)
(* character by character as the code and its JSON library compute them.   *)
(* A JSON value is a record with the same five fields whatever its type.   *)
(***************************************************************************)
EXTENDS Integers, Sequences, FiniteSets, TLC

VARIABLES exists, error, translations, locales, input, call, rp

vars == <<exists, error, translations, locales, input, call, rp>>

(***************************************************************************)
(* Bounds of the model.                                                    *)
(***************************************************************************)
\* longest path handed to get and t
MaxCallPathLen == 3
\* nesting depth of a locale tree of a document
MaxDocDepth == 1
\* longest path handed to resolvePath on its own
MaxPathLen == 4
\* nesting depth of a tree handed to resolvePath on its own
MaxTreeDepth == 2

(***************************************************************************)
(* JSON values (nlohmann::json).                                           *)
(***************************************************************************)
NoKids == <<>>

Json(t, s, n, kids, elems) == [type |-> t, s |-> s, n |-> n, kids |-> kids, elems |-> elems]

JNull == Json("null", <<>>, 0, NoKids, <<>>)

JStr(s) == Json("string", s, 0, NoKids, <<>>)

JNum(n) == Json("number", <<>>, n, NoKids, <<>>)

JBool(b) == Json("boolean", <<>>, IF b THEN 1 ELSE 0, NoKids, <<>>)

JArr(elems) == Json("array", <<>>, 0, NoKids, elems)

JObj(kids) == Json("object", <<>>, 0, kids, <<>>)

\* a null pointer to a JSON value (const nlohmann::json * == nullptr)
Nullptr == Json("nullptr", <<>>, 0, NoKids, <<>>)

is_object(j) == j.type = "object"

is_null(j) == j.type = "null"

\* basic_json::contains(key): false on anything that is not an object
contains(j, key) == is_object(j) /\ key \in DOMAIN j.kids

\* basic_json::empty(): null is empty, object/array by size, a scalar never
empty(j) ==
  CASE j.type = "null" -> TRUE
    [] j.type = "object" -> DOMAIN j.kids = {}
    [] j.type = "array" -> Len(j.elems) = 0
    [] OTHER -> FALSE

(***************************************************************************)
(* std::getline(ss, segment, '.') on a std::stringstream: st is the        *)
(* stream, [buf, pos, eof, fail]; pos counts the characters consumed.      *)
(***************************************************************************)
Stream(buf) == [buf |-> buf, pos |-> 0, eof |-> FALSE, fail |-> FALSE]

RECURSIVE ScanTo(_, _, _)
\* the first position at or after i holding delim, or Len(buf) + 1
ScanTo(buf, i, delim) ==
  IF i > Len(buf) THEN i
  ELSE IF buf[i] = delim THEN i
  ELSE ScanTo(buf, i + 1, delim)

getline(st, delim) ==
  IF st.eof \/ st.fail
  THEN [st |-> [st EXCEPT !.fail = TRUE], ok |-> FALSE, segment |-> <<>>]
  ELSE LET stop == ScanTo(st.buf, st.pos + 1, delim)
           hitEof == stop > Len(st.buf)
           seg == SubSeq(st.buf, st.pos + 1, stop - 1)
           extracted == (stop - 1 - st.pos) + (IF hitEof THEN 0 ELSE 1)
       IN  [st |-> [buf |-> st.buf,
                    pos |-> IF hitEof THEN Len(st.buf) ELSE stop,
                    eof |-> hitEof,
                    fail |-> extracted = 0],
            ok |-> extracted # 0,
            segment |-> seg]

(***************************************************************************)
(* I18n::resolvePath                                                       *)
(***************************************************************************)
RECURSIVE resolveLoop(_, _)
resolveLoop(current, st) ==
  LET g == getline(st, ".")
  IN  IF ~g.ok THEN current
      ELSE IF ~is_object(current) \/ ~contains(current, g.segment) THEN Nullptr
      ELSE resolveLoop(current.kids[g.segment], g.st)

\* resolvePath, were a node holding null reported as not found
resolvePath_nullIsMissing(source, path) ==
  LET found == resolveLoop(source, Stream(path))
  IN  IF found.type = "null" THEN Nullptr ELSE found

resolvePath(source, path) == resolveLoop(source, Stream(path))

(***************************************************************************)
(* Key order of a JSON object (std::map<std::string, json>) and items().   *)
(***************************************************************************)
\* the characters that occur in keys, in ASCII order
CharOrder == <<"0", "1", "2", "3", "4", "5", "6", "7", "8", "9",
               "a", "d", "e", "f", "i", "n", "r", "x">>

CharCode(c) == CHOOSE i \in 1..Len(CharOrder) : CharOrder[i] = c

RECURSIVE KeyLess(_, _)
\* std::string operator<
KeyLess(a, b) ==
  IF Len(b) = 0 THEN FALSE
  ELSE IF Len(a) = 0 THEN TRUE
  ELSE IF a[1] = b[1] THEN KeyLess(Tail(a), Tail(b))
  ELSE CharCode(a[1]) < CharCode(b[1])

RECURSIVE SortedKeys(_)
SortedKeys(S) ==
  IF S = {} THEN <<>>
  ELSE LET least == CHOOSE k \in S : \A o \in S \ {k} : KeyLess(k, o)
       IN  <<least>> \o SortedKeys(S \ {least})

Digits == <<"0", "1", "2", "3", "4", "5", "6", "7", "8", "9">>

RECURSIVE to_string(_)
\* std::to_string of a non-negative integer
to_string(n) ==
  IF n < 10 THEN <<Digits[n + 1]>>
  ELSE to_string(n \div 10) \o <<Digits[(n % 10) + 1]>>

\* the keys that `for (auto &[key, value] : j.items())` yields, in order:
\* an object's keys, an array's indices, "" once for a scalar, none for null
ItemKeys(j) ==
  CASE j.type = "object" -> SortedKeys(DOMAIN j.kids)
    [] j.type = "array" -> [i \in 1..Len(j.elems) |-> to_string(i - 1)]
    [] j.type = "null" -> <<>>
    [] OTHER -> << <<>> >>

(***************************************************************************)
(* nlohmann::json::parse on the characters left in a stream: objects,      *)
(* arrays, strings without escapes, non-negative integers and the three    *)
(* literals, with blanks between tokens; the whole input must be one value.*)
(***************************************************************************)
IsDigit(c) == \E i \in 1..10 : Digits[i] = c

DigitVal(c) == (CHOOSE i \in 1..10 : Digits[i] = c) - 1

RECURSIVE SkipWs(_, _)
SkipWs(s, i) == IF i <= Len(s) /\ s[i] = " " THEN SkipWs(s, i + 1) ELSE i

RECURSIVE ScanNumber(_, _, _)
\* the digits from i on: [n: the value read so far, next: the position after them]
ScanNumber(s, i, acc) ==
  IF i <= Len(s) /\ IsDigit(s[i]) THEN ScanNumber(s, i + 1, acc * 10 + DigitVal(s[i]))
  ELSE [n |-> acc, next |-> i]

ParseFail == [ok |-> FALSE, val |-> Nullptr, next |-> 0]

ParseOk(v, next) == [ok |-> TRUE, val |-> v, next |-> next]

HasLiteral(s, i, lit) == i + Len(lit) - 1 <= Len(s) /\ SubSeq(s, i, i + Len(lit) - 1) = lit

\* a string token starting at the quote at i
ParseString(s, i) ==
  IF i > Len(s) \/ s[i] # "\"" THEN ParseFail
  ELSE LET close == ScanTo(s, i + 1, "\"")
       IN  IF close > Len(s) THEN ParseFail
           ELSE ParseOk(JStr(SubSeq(s, i + 1, close - 1)), close + 1)

RECURSIVE ParseValue(_, _)
RECURSIVE ParseMembers(_, _, _)
RECURSIVE ParseElems(_, _, _)

\* the members of an object from i on, after "{" or ","
ParseMembers(s, i, kids) ==
  LET k == ParseString(s, SkipWs(s, i))
      colon == SkipWs(s, k.next)
  IN  IF ~k.ok \/ colon > Len(s) \/ s[colon] # ":" THEN ParseFail
      ELSE LET v == ParseValue(s, colon + 1)
               after == SkipWs(s, v.next)
               key == k.val.s
               more == [x \in DOMAIN kids \cup {key} |-> IF x = key THEN v.val ELSE kids[x]]
           IN  IF ~v.ok \/ after > Len(s) THEN ParseFail
               ELSE IF s[after] = "," THEN ParseMembers(s, after + 1, more)
               ELSE IF s[after] = "}" THEN ParseOk(JObj(more), after + 1)
               ELSE ParseFail

\* the elements of an array from i on, after "[" or ","
ParseElems(s, i, elems) ==
  LET v == ParseValue(s, i)
      after == SkipWs(s, v.next)
  IN  IF ~v.ok \/ after > Len(s) THEN ParseFail
      ELSE IF s[after] = "," THEN ParseElems(s, after + 1, Append(elems, v.val))
      ELSE IF s[after] = "]" THEN ParseOk(JArr(Append(elems, v.val)), after + 1)
      ELSE ParseFail

ParseValue(s, i0) ==
  LET i == SkipWs(s, i0)
  IN  IF i > Len(s) THEN ParseFail
      ELSE IF s[i] = "{"
        THEN LET j == SkipWs(s, i + 1)
             IN  IF j <= Len(s) /\ s[j] = "}" THEN ParseOk(JObj(NoKids), j + 1)
                 ELSE ParseMembers(s, i + 1, NoKids)
      ELSE IF s[i] = "["
        THEN LET j == SkipWs(s, i + 1)
             IN  IF j <= Len(s) /\ s[j] = "]" THEN ParseOk(JArr(<<>>), j + 1)
                 ELSE ParseElems(s, i + 1, <<>>)
      ELSE IF s[i] = "\"" THEN ParseString(s, i)
      ELSE IF IsDigit(s[i])
        THEN LET num == ScanNumber(s, i, 0) IN ParseOk(JNum(num.n), num.next)
      ELSE IF HasLiteral(s, i, <<"n", "u", "l", "l">>) THEN ParseOk(JNull, i + 4)
      ELSE IF HasLiteral(s, i, <<"t", "r", "u", "e">>) THEN ParseOk(JBool(TRUE), i + 4)
      ELSE IF HasLiteral(s, i, <<"f", "a", "l", "s", "e">>) THEN ParseOk(JBool(FALSE), i + 5)
      ELSE ParseFail

\* json::parse: [ok, val]; not ok is a thrown parse_error
parse(s) ==
  LET v == ParseValue(s, 1)
  IN  IF v.ok /\ SkipWs(s, v.next) = Len(s) + 1 THEN [ok |-> TRUE, val |-> v.val]
      ELSE [ok |-> FALSE, val |-> Nullptr]

(***************************************************************************)
(* std::ifstream: whether the file opened, its bytes, the read position.   *)
(***************************************************************************)
ifstream(file) == [open |-> file.opens, bytes |-> file.content, pos |-> 0]

is_open(ifs) == ifs.open

\* peek() == traits_type::eof()
peek_is_eof(ifs) == ifs.pos >= Len(ifs.bytes)

\* seekg(0, std::ios::end)
seekg_end(ifs) == [ifs EXCEPT !.pos = Len(ifs.bytes)]

tellg(ifs) == ifs.pos

\* what a reader of the stream gets from here on
remaining(ifs) == SubSeq(ifs.bytes, ifs.pos + 1, Len(ifs.bytes))

(***************************************************************************)
(* The constructors. A thrown std::runtime_error is the record's error,    *)
(* named by the start of its message; "none" is a constructed store.       *)
(***************************************************************************)
Thrown(msg) == [error |-> msg, translations |-> JNull, locales |-> <<>>]

Built(j) == [error |-> "none", translations |-> j, locales |-> ItemKeys(j)]

\* I18n() = default
I18nDefault == [error |-> "none", translations |-> JNull, locales |-> <<>>]

\* the file constructor, were the two empty-file checks left out
I18nFromFile_noEmptyCheck(file) ==
  LET ifs == ifstream(file)
  IN  IF ~is_open(ifs) THEN Thrown("Could not open file")
      ELSE LET p == parse(remaining(seekg_end(ifs)))
           IN  IF ~p.ok THEN Thrown("Invalid JSON in file") ELSE Built(p.val)

\* I18n(const std::string &filePath)
I18nFromFile(file) ==
  LET ifs == ifstream(file)
  IN  IF ~is_open(ifs) THEN Thrown("Could not open file")
      ELSE IF peek_is_eof(ifs) THEN Thrown("File is empty")
      ELSE LET atEnd == seekg_end(ifs)
           IN  IF tellg(atEnd) = 0 THEN Thrown("File is empty")
               ELSE LET p == parse(remaining(atEnd))
                    IN  IF ~p.ok THEN Thrown("Invalid JSON in file") ELSE Built(p.val)

\* the in-memory constructor, were the empty check left out
I18nFromJson_noEmptyCheck(json) ==
  IF ~is_object(json) THEN Thrown("JSON must be an object") ELSE Built(json)

\* I18n(const nlohmann::json &json)
I18nFromJson(json) ==
  IF ~is_object(json) THEN Thrown("JSON must be an object")
  ELSE IF empty(json) THEN Thrown("JSON object is empty")
  ELSE Built(json)

(***************************************************************************)
(* Lookup.                                                                 *)
(***************************************************************************)
EN == <<"e", "n">>

ContentNotFound ==
  <<"C", "o", "n", "t", "e", "n", "t", " ", "n", "o", "t", " ", "f", "o", "u", "n", "d">>

\* basic_json::operator[](key) on a non-const value: [j: the value afterwards,
\* node: the element referred to, raised: a type_error was thrown]. A null value
\* becomes an object, and a key an object lacks is inserted holding null.
OpIndex(j, key) ==
  CASE j.type = "null" ->
         [j |-> JObj([k \in {key} |-> JNull]), node |-> JNull, raised |-> FALSE]
    [] j.type = "object" ->
         IF key \in DOMAIN j.kids
         THEN [j |-> j, node |-> j.kids[key], raised |-> FALSE]
         ELSE [j |-> JObj([k \in DOMAIN j.kids \cup {key} |->
                              IF k = key THEN JNull ELSE j.kids[k]]),
               node |-> JNull, raised |-> FALSE]
    [] OTHER -> [j |-> j, node |-> Nullptr, raised |-> TRUE]

RECURSIVE availLoop(_, _, _, _, _)
\* the loop of isContentAvailableInOtherLocales from locales[i] on
availLoop(tr, locs, i, path, currentLang) ==
  IF i > Len(locs) THEN [j |-> tr, result |-> FALSE, raised |-> FALSE]
  ELSE IF locs[i] # currentLang
    THEN LET ix == OpIndex(tr, locs[i])
             node == resolvePath(ix.node, path)
         IN  IF ix.raised THEN [j |-> ix.j, result |-> FALSE, raised |-> TRUE]
             ELSE IF node # Nullptr /\ ~is_null(node)
               THEN [j |-> ix.j, result |-> TRUE, raised |-> FALSE]
             ELSE availLoop(ix.j, locs, i + 1, path, currentLang)
  ELSE availLoop(tr, locs, i + 1, path, currentLang)

\* the scan, were the requested locale not skipped
isContentAvailableInOtherLocales_anyLocale(tr, locs, path, currentLang) ==
  availLoop(tr, locs, 1, path, <<"?">>)

\* I18n::isContentAvailableInOtherLocales: [j: translations afterwards, result, raised]
isContentAvailableInOtherLocales(tr, locs, path, currentLang) ==
  availLoop(tr, locs, 1, path, currentLang)

\* the lookup, were translations[langCode] not guarded by contains
lookupLocale_unguarded(tr, langCode, path) ==
  LET ix == OpIndex(tr, langCode)
  IN  [j |-> ix.j, node |-> IF ix.raised THEN Nullptr ELSE resolvePath(ix.node, path)]

\* get: `if (translations.contains(langCode)) node = resolvePath(translations[langCode], path)`
lookupLocale(tr, langCode, path) ==
  IF contains(tr, langCode)
  THEN LET ix == OpIndex(tr, langCode) IN [j |-> ix.j, node |-> resolvePath(ix.node, path)]
  ELSE [j |-> tr, node |-> Nullptr]

\* get: `if (langCode != "en" && translations.contains("en")) fallback = ...`
lookupFallback(tr, langCode, path) ==
  IF langCode # EN THEN lookupLocale(tr, EN, path) ELSE [j |-> tr, node |-> Nullptr]

\* the selection, were a null primary node not passed over
selectTarget_primaryIfFound(node, fallback) ==
  IF node # Nullptr THEN node ELSE fallback

\* get: `target = node && !node->is_null() ? node : fallback`
selectTarget(node, fallback) ==
  IF node # Nullptr /\ ~is_null(node) THEN node ELSE fallback

\* basic_json::get<T>(): [ok, val]; not ok is a thrown type_error
json_get(j, T) ==
  CASE T = "string" ->
         IF j.type = "string" THEN [ok |-> TRUE, val |-> j] ELSE [ok |-> FALSE, val |-> Nullptr]
    [] T = "int" ->
         IF j.type \in {"number", "boolean"} THEN [ok |-> TRUE, val |-> JNum(j.n)]
         ELSE [ok |-> FALSE, val |-> Nullptr]
    [] OTHER -> [ok |-> FALSE, val |-> Nullptr]

\* T{}
ValueInit(T) == IF T = "string" THEN JStr(<<>>) ELSE JNum(0)

\* the conversion, were its exception not caught
convertOrDefault_uncaught(target, T, defaultValue) ==
  IF target = Nullptr \/ is_null(target) THEN [ret |-> defaultValue, raised |-> FALSE]
  ELSE LET c == json_get(target, T)
       IN  IF c.ok THEN [ret |-> c.val, raised |-> FALSE]
           ELSE [ret |-> Nullptr, raised |-> TRUE]

\* the conversion, were a failure answered with T{} instead of the default
convertOrDefault_valueInit(target, T, defaultValue) ==
  IF target = Nullptr \/ is_null(target) THEN [ret |-> defaultValue, raised |-> FALSE]
  ELSE LET c == json_get(target, T)
       IN  [ret |-> IF c.ok THEN c.val ELSE ValueInit(T), raised |-> FALSE]

\* get: the default for no target or a null one, else the conversion, whose
\* json::exception is caught and answered with the default
convertOrDefault(target, T, defaultValue) ==
  IF target = Nullptr \/ is_null(target) THEN [ret |-> defaultValue, raised |-> FALSE]
  ELSE LET c == json_get(target, T)
       IN  [ret |-> IF c.ok THEN c.val ELSE defaultValue, raised |-> FALSE]

\* I18n::get<T>: [translations: the member afterwards, ret, warned, raised]
get(tr, locs, path, langCode, T, defaultValue) ==
  LET prim == lookupLocale(tr, langCode, path)
      avail == isContentAvailableInOtherLocales(prim.j, locs, path, langCode)
      fall == lookupFallback(avail.j, langCode, path)
      target == selectTarget(prim.node, fall.node)
      conv == convertOrDefault(target, T, defaultValue)
  IN  IF avail.raised
      THEN [translations |-> avail.j, ret |-> Nullptr, warned |-> FALSE, raised |-> TRUE]
      ELSE [translations |-> fall.j, ret |-> conv.ret, warned |-> ~avail.result,
            raised |-> conv.raised]

\* the default of t, were the empty string not replaced
effectiveDefault_asGiven(T, defaultValue) == defaultValue

\* t: `if constexpr (is_same_v<T, std::string>) if (defaultValue.empty()) defaultValue = ...`
effectiveDefault(T, defaultValue) ==
  IF T = "string" /\ defaultValue.s = <<>> THEN JStr(ContentNotFound) ELSE defaultValue

\* I18n::t<T>
t(tr, locs, path, langCode, T, defaultValue) ==
  get(tr, locs, path, langCode, T, effectiveDefault(T, defaultValue))

(***************************************************************************)
(* Inputs: characters, keys, trees and paths.                              *)
(***************************************************************************)
PathChars == {"a", ".", "0"}

TreeKeys == {<<"a">>, <<>>}

Leaves == {JNull, JStr(<<"x">>), JNum(5), JArr(<<JStr(<<"x">>)>>)}

RECURSIVE TreesOf(_)
\* leaves, and objects of one key, nested to depth d
TreesOf(d) ==
  IF d = 0 THEN Leaves
  ELSE LET sub == TreesOf(d - 1)
       IN  sub \cup {JObj([k \in {key} |-> v]) : key \in TreeKeys, v \in sub}

RECURSIVE SeqsUpTo(_, _)
SeqsUpTo(S, n) ==
  IF n = 0 THEN {<<>>}
  ELSE LET shorter == SeqsUpTo(S, n - 1)
       IN  shorter \cup {Append(p, c) : p \in shorter, c \in S}

ID == <<"i", "d">>

FR == <<"f", "r">>

\* the locale codes a document may hold, and those a caller may ask for
DocLocales == {EN, ID}

Langs == {EN, ID, FR}

CallPathChars == {"a", "."}

CallPaths == SeqsUpTo(CallPathChars, MaxCallPathLen)

\* documents: objects of one or two locales, each with a tree
Docs ==
  LET trees == TreesOf(MaxDocDepth)
  IN  UNION {{JObj(f) : f \in [D -> trees]} : D \in (SUBSET DocLocales) \ {{}}}

\* what the in-memory constructor may be handed
JsonInputs == Docs \cup Leaves \cup {JObj(NoKids)}

Quote(s) == <<"\"">> \o s \o <<"\"">>

RECURSIVE Serialize(_)
RECURSIVE SerializeMembers(_, _, _)
RECURSIVE SerializeElems(_, _)

SerializeMembers(kids, keys, i) ==
  IF i > Len(keys) THEN <<>>
  ELSE (IF i > 1 THEN <<",">> ELSE <<>>) \o Quote(keys[i]) \o <<":">>
       \o Serialize(kids[keys[i]]) \o SerializeMembers(kids, keys, i + 1)

SerializeElems(elems, i) ==
  IF i > Len(elems) THEN <<>>
  ELSE (IF i > 1 THEN <<",">> ELSE <<>>) \o Serialize(elems[i]) \o SerializeElems(elems, i + 1)

\* the compact JSON text of a value: what a translations file holds
Serialize(j) ==
  CASE j.type = "object" -> <<"{">> \o SerializeMembers(j.kids, SortedKeys(DOMAIN j.kids), 1) \o <<"}">>
    [] j.type = "array" -> <<"[">> \o SerializeElems(j.elems, 1) \o <<"]">>
    [] j.type = "string" -> Quote(j.s)
    [] j.type = "number" -> to_string(j.n)
    [] j.type = "boolean" -> IF j.n = 1 THEN <<"t", "r", "u", "e">> ELSE <<"f", "a", "l", "s", "e">>
    [] OTHER -> <<"n", "u", "l", "l">>

Front(s) == SubSeq(s, 1, Len(s) - 1)

\* files: one that does not open, an empty one, the text of every value the
\* in-memory constructor may be handed, and each text with its last byte cut
Files ==
  {[opens |-> FALSE, content |-> <<>>], [opens |-> TRUE, content |-> <<>>]}
  \cup {[opens |-> TRUE, content |-> Serialize(j)] : j \in JsonInputs}
  \cup {[opens |-> TRUE, content |-> Front(Serialize(j))] : j \in JsonInputs}

\* the (T, default) pairs of a get call and of a t call
GetArgs ==
  {[T |-> "string", def |-> JStr(<<>>)], [T |-> "string", def |-> JStr(<<"d">>)],
   [T |-> "int", def |-> JNum(-1)]}

TArgs ==
  {[T |-> "string", def |-> JStr(<<>>)], [T |-> "string", def |-> JStr(<<"d">>)],
   [T |-> "int", def |-> JNum(0)]}

NoCall == [stage |-> "idle", op |-> "none", path |-> <<>>, lang |-> <<>>, T |-> "string",
           def |-> Nullptr, ret |-> Nullptr, warned |-> FALSE, raised |-> FALSE]

NoInput == [kind |-> "none", json |-> Nullptr, opens |-> FALSE, content |-> <<>>]

NoRp == [tree |-> JNull, path |-> <<>>, done |-> FALSE, res |-> Nullptr]

(***************************************************************************)
(* The store: one construction, then any sequence of get and t calls.      *)
(* input remembers the constructor's argument, call the last lookup.       *)
(***************************************************************************)
Init ==
  /\ exists = FALSE
  /\ error = "none"
  /\ translations = JNull
  /\ locales = <<>>
  /\ input = NoInput
  /\ call = NoCall
  /\ rp = NoRp

ConstructDefault ==
  /\ input.kind = "none"
  /\ input' = [NoInput EXCEPT !.kind = "default"]
  /\ exists' = TRUE
  /\ error' = I18nDefault.error
  /\ translations' = I18nDefault.translations
  /\ locales' = I18nDefault.locales
  /\ UNCHANGED <<call, rp>>

ConstructFromJson ==
  /\ input.kind = "none"
  /\ \E j \in JsonInputs :
       LET made == I18nFromJson(j)
       IN  /\ input' = [NoInput EXCEPT !.kind = "json", !.json = j]
           /\ exists' = (made.error = "none")
           /\ error' = made.error
           /\ translations' = made.translations
           /\ locales' = made.locales
  /\ UNCHANGED <<call, rp>>

ConstructFromFile ==
  /\ input.kind = "none"
  /\ \E f \in Files :
       LET made == I18nFromFile(f)
       IN  /\ input' = [NoInput EXCEPT !.kind = "file", !.opens = f.opens,
                                       !.content = f.content]
           /\ exists' = (made.error = "none")
           /\ error' = made.error
           /\ translations' = made.translations
           /\ locales' = made.locales
  /\ UNCHANGED <<call, rp>>

\* the caller names the operation, the locale, T and the default of its next call
Prepare ==
  /\ exists
  /\ call.stage = "idle"
  /\ \E op \in {"get", "t"}, lang \in Langs :
       \E a \in (IF op = "get" THEN GetArgs ELSE TArgs) :
         call' = [NoCall EXCEPT !.stage = "args", !.op = op, !.lang = lang,
                                !.T = a.T, !.def = a.def]
  /\ UNCHANGED <<exists, error, translations, locales, input, rp>>

\* the caller writes the path of its next call, a character at a time
ExtendPath ==
  /\ call.stage = "args"
  /\ Len(call.path) < MaxCallPathLen
  /\ \E c \in CallPathChars : call' = [call EXCEPT !.path = Append(call.path, c)]
  /\ UNCHANGED <<exists, error, translations, locales, input, rp>>

Called(r) ==
  /\ translations' = r.translations
  /\ call' = [call EXCEPT !.stage = "done", !.ret = r.ret, !.warned = r.warned,
                          !.raised = r.raised]
  /\ UNCHANGED <<exists, error, locales, input, rp>>

Get ==
  /\ call.stage = "args"
  /\ call.op = "get"
  /\ Called(get(translations, locales, call.path, call.lang, call.T, call.def))

Translate ==
  /\ call.stage = "args"
  /\ call.op = "t"
  /\ Called(t(translations, locales, call.path, call.lang, call.T, call.def))

\* the caller is done with the result
Discard ==
  /\ call.stage = "done"
  /\ call' = NoCall
  /\ UNCHANGED <<exists, error, translations, locales, input, rp>>

Next ==
  \/ ConstructDefault
  \/ ConstructFromJson
  \/ ConstructFromFile
  \/ Prepare
  \/ ExtendPath
  \/ Get
  \/ Translate
  \/ Discard

Spec == Init /\ [][Next]_vars

(***************************************************************************)
(* resolvePath on its own: a tree and a path are drawn, then resolved.     *)
(***************************************************************************)
InitResolve ==
  /\ exists = FALSE
  /\ error = "none"
  /\ translations = JNull
  /\ locales = <<>>
  /\ input = NoInput
  /\ call = NoCall
  /\ rp \in [tree : TreesOf(MaxTreeDepth), path : SeqsUpTo(PathChars, MaxPathLen),
             done : {FALSE}, res : {Nullptr}]

Resolve ==
  /\ ~rp.done
  /\ rp' = [rp EXCEPT !.done = TRUE, !.res = resolvePath(rp.tree, rp.path)]
  /\ UNCHANGED <<exists, error, translations, locales, input, call>>

NextResolve == Resolve

SpecResolve == InitResolve /\ [][NextResolve]_vars

(***************************************************************************)
(* What the claims speak of, stated on the document itself.                *)
(***************************************************************************)
\* the positions of the dots of a path, and the pieces between them
DotsUpTo(path, i) == Cardinality({j \in 1..i : path[j] = "."})

DotPos(path, k) ==
  IF k = 0 THEN 0
  ELSE IF k > DotsUpTo(path, Len(path)) THEN Len(path) + 1
  ELSE CHOOSE i \in 1..Len(path) : path[i] = "." /\ DotsUpTo(path, i) = k

\* the path split on '.': one more piece than it has dots
SplitOnDots(path) ==
  [k \in 1..(DotsUpTo(path, Len(path)) + 1) |->
     SubSeq(path, DotPos(path, k - 1) + 1, DotPos(path, k) - 1)]

\* the same pieces without an empty last one
SplitDroppingLastEmpty(path) ==
  LET pieces == SplitOnDots(path)
  IN  IF pieces[Len(pieces)] = <<>> THEN SubSeq(pieces, 1, Len(pieces) - 1) ELSE pieces

RECURSIVE NodeAt(_, _, _)
\* the node i segments below tree, or Nullptr when the walk breaks before
NodeAt(tree, segs, i) ==
  IF i = 0 THEN tree
  ELSE LET above == NodeAt(tree, segs, i - 1)
       IN  IF above.type = "object" /\ segs[i] \in DOMAIN above.kids
           THEN above.kids[segs[i]]
           ELSE Nullptr

\* r is what walking segs from tree gives: not found exactly when a step
\* meets a node that is no mapping or lacks the segment, else the node reached
WalkGives(tree, segs, r) ==
  /\ (r = Nullptr) <=>
       \E i \in 1..Len(segs) :
         LET cur == NodeAt(tree, segs, i - 1)
         IN  cur.type # "object" \/ segs[i] \notin DOMAIN cur.kids
  /\ r # Nullptr => r = NodeAt(tree, segs, Len(segs))
  /\ (\E i \in 1..Len(segs) : NodeAt(tree, segs, i - 1).type = "array") => r = Nullptr

\* the document a store was built from
Loaded ==
  CASE input.kind = "json" -> input.json
    [] input.kind = "file" -> parse(input.content).val
    [] OTHER -> JNull

TopKeys(doc) == IF doc.type = "object" THEN DOMAIN doc.kids ELSE {}

ValueAt(doc, lang, path) ==
  IF lang \in TopKeys(doc)
  THEN LET segs == SplitDroppingLastEmpty(path) IN NodeAt(doc.kids[lang], segs, Len(segs))
  ELSE Nullptr

HasValue(doc, lang, path) ==
  LET v == ValueAt(doc, lang, path) IN v # Nullptr /\ v.type # "null"

\* the node the fallback chain selects, Nullptr when it ends in the default
Selected(doc, lang, path) ==
  IF HasValue(doc, lang, path) THEN ValueAt(doc, lang, path)
  ELSE IF lang # EN /\ HasValue(doc, EN, path) THEN ValueAt(doc, EN, path)
  ELSE Nullptr

Converts(v, T) ==
  \/ T = "string" /\ v.type = "string"
  \/ T = "int" /\ v.type \in {"number", "boolean"}

Converted(v, T) == IF T = "string" THEN v ELSE JNum(v.n)

IOError == {"Could not open file", "File is empty"}

ParseError == {"Invalid JSON in file"}

InvalidDocument == {"JSON must be an object", "JSON object is empty"}

ErrorKind(e) ==
  CASE e \in IOError -> "IOError"
    [] e \in ParseError -> "ParseError"
    [] e \in InvalidDocument -> "InvalidDocument"
    [] OTHER -> "none"

GetDone == call.stage = "done" /\ call.op = "get"

TDone == call.stage = "done" /\ call.op = "t"

(***************************************************************************)
(* The claims.                                                             *)
(***************************************************************************)
\* C1: get returns the requested locale's non-null value at the path, else
\* the "en" value when the locale is not "en" and "en" has a non-null value
\* there, else the default, whenever the selected node converts to T.
C1_FallbackChain ==
  GetDone =>
    LET sel == Selected(Loaded, call.lang, call.path)
    IN  IF sel = Nullptr THEN call.ret = call.def
        ELSE Converts(sel, call.T) => call.ret = Converted(sel, call.T)

C1_Witness ==
  /\ GetDone
  /\ call.lang = ID
  /\ ValueAt(Loaded, ID, call.path).type = "null"
  /\ HasValue(Loaded, EN, call.path)
  /\ call.ret = ValueAt(Loaded, EN, call.path)

\* C2: for a string result, t with an empty default answers "Content not
\* found" when neither the requested locale nor "en" has a non-null value at
\* the path, and with a non-empty default answers what get answers.
C2_Sentinel ==
  (TDone /\ call.T = "string") =>
    /\ (call.def.s = <<>> /\ Selected(Loaded, call.lang, call.path) = Nullptr)
         => call.ret = JStr(ContentNotFound)
    /\ call.def.s # <<>>
         => call.ret = get(translations, locales, call.path, call.lang, call.T, call.def).ret

C2_Witness ==
  /\ TDone
  /\ call.T = "string"
  /\ call.def.s = <<>>
  /\ Selected(Loaded, call.lang, call.path) = Nullptr
  /\ call.ret = JStr(ContentNotFound)

\* C3: construction from an in-memory value fails with InvalidDocument, and
\* no store exists, when the value is no object or an empty one; it succeeds
\* for every non-empty object.
C3_InvalidDocument ==
  input.kind = "json" =>
    IF input.json.type # "object" \/ DOMAIN input.json.kids = {}
    THEN ~exists /\ error \in InvalidDocument
    ELSE exists /\ error = "none" /\ translations = input.json

C3_Witness ==
  /\ input.kind = "json"
  /\ input.json = JObj(NoKids)
  /\ ~exists
  /\ error \in InvalidDocument

\* C4: construction from a file fails with IOError when the file does not
\* open or has no bytes, and with ParseError when a non-empty file is not
\* valid JSON; an empty file is an IOError, not a ParseError.
C4_FileErrors ==
  input.kind = "file" =>
    /\ (~input.opens \/ Len(input.content) = 0) => (~exists /\ error \in IOError)
    /\ (input.opens /\ Len(input.content) > 0 /\ ~parse(input.content).ok)
         => (~exists /\ error \in ParseError)

C4_Witness ==
  /\ input.kind = "file"
  /\ input.opens
  /\ Len(input.content) > 0
  /\ ~parse(input.content).ok
  /\ error \in ParseError

\* C5: construction from a file of valid JSON does what in-memory
\* construction from the parsed value does: the same store for a non-empty
\* object, the same kind of failure for what in-memory construction rejects.
C5_FileAsInMemory ==
  (input.kind = "file" /\ input.opens /\ parse(input.content).ok) =>
    LET made == I18nFromJson(parse(input.content).val)
    IN  /\ exists = (made.error = "none")
        /\ exists => (translations = made.translations /\ locales = made.locales)
        /\ ~exists => ErrorKind(error) = ErrorKind(made.error)

\* C6: the held document stays the one loaded at construction and the locale
\* list stays exactly its top-level keys, whatever get and t calls are made.
C6_Immutable ==
  exists =>
    /\ translations = Loaded
    /\ {locales[i] : i \in 1..Len(locales)} = TopKeys(Loaded)
    /\ Len(locales) = Cardinality(TopKeys(Loaded))

C6_Witness ==
  /\ call.stage = "done"
  /\ input.kind = "json"
  /\ call.lang \notin TopKeys(Loaded)
  /\ EN \notin TopKeys(Loaded)
  /\ translations = input.json

\* C7: when the node get selects does not convert to T, get returns the
\* caller's default and raises nothing, also when the "en" node it did not
\* select converts to T.
C7_ConversionFailure ==
  GetDone =>
    LET sel == Selected(Loaded, call.lang, call.path)
    IN  (sel # Nullptr /\ ~Converts(sel, call.T)) => (call.ret = call.def /\ ~call.raised)

C7_Witness ==
  /\ GetDone
  /\ call.lang = ID
  /\ HasValue(Loaded, ID, call.path)
  /\ ~Converts(ValueAt(Loaded, ID, call.path), call.T)
  /\ HasValue(Loaded, EN, call.path)
  /\ Converts(ValueAt(Loaded, EN, call.path), call.T)
  /\ call.ret = call.def
  /\ ~call.raised

\* the value a lookup is to return: the selected node converted, else the default
Answer(doc, lang, path, T, def) ==
  LET sel == Selected(doc, lang, path)
  IN  IF sel # Nullptr /\ Converts(sel, T) THEN Converted(sel, T) ELSE def

\* C8: get warns exactly when no locale of the document other than the
\* requested one has a non-null value at the path, whether or not the
\* requested one has; warned or not, the value returned is the same.
C8_Warning ==
  GetDone =>
    /\ call.warned <=>
         ~\E l \in TopKeys(Loaded) \ {call.lang} : HasValue(Loaded, l, call.path)
    /\ call.ret = Answer(Loaded, call.lang, call.path, call.T, call.def)

C8_Witness ==
  /\ GetDone
  /\ call.warned
  /\ HasValue(Loaded, call.lang, call.path)
  /\ call.ret = Converted(ValueAt(Loaded, call.lang, call.path), call.T)

\* C9 as stated: resolvePath gives what walking the path split on '.' gives,
\* for every path.
C9_SplitOnDots ==
  rp.done => WalkGives(rp.tree, SplitOnDots(rp.path), rp.res)

\* C9 as amended: resolvePath gives what walking the pieces of the path split
\* on '.' gives once an empty last piece is dropped: the empty path has no
\* segment and resolves to the tree itself, and one trailing '.' is ignored.
C9_SplitAsGetline ==
  rp.done => WalkGives(rp.tree, SplitDroppingLastEmpty(rp.path), rp.res)

C9_Witness ==
  /\ rp.done
  /\ rp.path = <<"a", ".">>
  /\ rp.res = JNull

\* C10: on every store there is, get and t return a value of the asked type
\* and raise nothing, whatever the path, the locale and the default.
C10_NoRaise ==
  (exists /\ call.stage = "done") =>
    /\ ~call.raised
    /\ call.ret.type = (IF call.T = "string" THEN "string" ELSE "number")
    /\ call.ret = Answer(Loaded, call.lang, call.path, call.T,
                         IF call.op = "t" /\ call.T = "string" /\ call.def.s = <<>>
                         THEN JStr(ContentNotFound) ELSE call.def)

C10_Witness ==
  /\ call.stage = "done"
  /\ input.kind = "default"
  /\ ~call.raised
  /\ call.ret = call.def

====
